---------------------------- MODULE Spec2Model ----------------------------
(***************************************************************************)
(* Model of HAFASProvider (src/HAFASProvider.py): the station-board XML    *)
(* parser get_stboard with its helpers __handle_station,                   *)
(* __handle_departure_or_arrival and __handle_basic_stop, and the          *)
(* autocomplete JSON parser get_autocomplete_locations.                    *)
(*                                                                         *)
(* Python values are embedded as follows.  A value that may be of several  *)
(* types (an XML text or attribute: str or None; 'time': int or str) is    *)
(* wrapped: PyStr(s), PyInt(n), PyNone.  A dict is a function whose domain *)
(* is the set of its keys.  A call either returns, Ret(v), or raises,      *)
(* Raise("TypeError").  An lxml element is a record                        *)
(* [tag, attrib, text, children].                                          *)
(***************************************************************************)
EXTENDS Integers, Sequences, FiniteSets, TLC

VARIABLES
    pc,                   \* position of get_stboard / harness
    start_date,           \* get_stboard: StartT/@date
    start_time,           \* get_stboard: StartT/@time
    origin_station_info,  \* get_stboard: dict of the station hafas selected
    connections,          \* get_stboard: list of connection dicts
    conn,                 \* get_stboard: connection being built
    stops,                \* get_stboard: index -> stop dict of that connection
    journey,              \* get_stboard: the Journey element being walked
    k,                    \* get_stboard: position of the next child of journey
    exc,                  \* exception that left the running call, or "none"
    header,               \* input read so far: the SBReq part of the document
    journeys,             \* input read so far: the Journey elements, in order
    call,                 \* unit harness: the helper called and its arguments
    ret,                  \* unit harness: what the helper returned or raised
    suggestions,          \* get_autocomplete_locations: root['suggestions']
    ac_i,                 \* get_autocomplete_locations: loop position
    ac_stops,             \* get_autocomplete_locations: list built so far
    ac_ret                \* get_autocomplete_locations: the returned list

vars == <<pc, start_date, start_time, origin_station_info, connections, conn,
          stops, journey, k, exc, header, journeys, call, ret,
          suggestions, ac_i, ac_stops, ac_ret>>

board_vars == <<start_date, start_time, origin_station_info, connections,
                conn, stops, journey, k, exc, header, journeys>>
unit_vars == <<call, ret>>
ac_vars == <<suggestions, ac_i, ac_stops, ac_ret>>

---------------------------------------------------------------------------
(* Python values, results and dicts *)

PyNone == [none |-> TRUE]
PyStr(s) == [str |-> s]
PyInt(n) == [int |-> n]
IsStr(v) == DOMAIN v = {"str"}

\* a / b with Python 3 true division: the float a/b, kept as the exact ratio
TrueDiv(a, b) == [float_num |-> a, float_den |-> b]

Ret(v) == [ret |-> v]
Raise(e) == [exc |-> e]
IsExc(r) == DOMAIN r = {"exc"}

EmptyDict == [key \in {} |-> 0]
Put(d, key, v) == [y \in DOMAIN d \cup {key} |-> IF y = key THEN v ELSE d[y]]
Has(d, key) == key \in DOMAIN d

---------------------------------------------------------------------------
(* lxml elements *)

El(tag, attrib, text, children) ==
    [tag |-> tag, attrib |-> attrib, text |-> text, children |-> children]

\* element.get(name): the attribute's string, or None
Get(element, name) ==
    IF name \in DOMAIN element.attrib THEN PyStr(element.attrib[name]) ELSE PyNone

\* element.find(tag): the first child with that tag, or None
Find(element, tag) ==
    IF \E i \in 1..Len(element.children) : element.children[i].tag = tag
    THEN element.children[CHOOSE i \in 1..Len(element.children) :
                            /\ element.children[i].tag = tag
                            /\ \A j \in 1..(i - 1) : element.children[j].tag # tag]
    ELSE PyNone

---------------------------------------------------------------------------
(* int(): Python's conversion of a str to an integer *)

Digits == {"0", "1", "2", "3", "4", "5", "6", "7", "8", "9"}

DigitVal(c) ==
    CASE c = "0" -> 0 [] c = "1" -> 1 [] c = "2" -> 2 [] c = "3" -> 3
      [] c = "4" -> 4 [] c = "5" -> 5 [] c = "6" -> 6 [] c = "7" -> 7
      [] c = "8" -> 8 [] c = "9" -> 9

\* str.isdigit(): non-empty and every character a digit
isdigit(s) == Len(s) > 0 /\ \A i \in 1..Len(s) : SubSeq(s, i, i) \in Digits

RECURSIVE DecimalValue(_, _)
DecimalValue(s, acc) ==
    IF Len(s) = 0 THEN acc
    ELSE DecimalValue(Tail(s), 10 * acc + DigitVal(Head(s)))

\* int(v): TypeError for None, ValueError for a str that is no integer
\* literal, the value of [+-]?[0-9]+ otherwise
py_int(v) ==
    IF ~IsStr(v) THEN Raise("TypeError")
    ELSE LET s == v.str
             signed == Len(s) > 0 /\ Head(s) \in {"-", "+"}
             body == IF signed THEN Tail(s) ELSE s
         IN  IF ~isdigit(body) THEN Raise("ValueError")
             ELSE IF signed /\ Head(s) = "-" THEN Ret(0 - DecimalValue(body, 0))
             ELSE Ret(DecimalValue(body, 0))

---------------------------------------------------------------------------
(* Sequencing of calls that may raise: F is applied to what r returned,   *)
(* and an exception r raised propagates                                    *)

Bind(r, F(_)) == IF IsExc(r) THEN r ELSE F(r.ret)

---------------------------------------------------------------------------
(* HAFASProvider.__handle_station *)

RECURSIVE handle_station_loop(_, _, _)
handle_station_loop(leaf, i, info) ==
    IF i > Len(leaf) THEN Ret(info)
    ELSE IF leaf[i].tag = "ExternalId" THEN
        Bind(py_int(leaf[i].text), LAMBDA external_id :
        Bind(py_int(Get(leaf[i], "pooluic")), LAMBDA pooluic :
            handle_station_loop(leaf, i + 1,
                Put(Put(info, "external_id", external_id), "pooluic", pooluic))))
    ELSE IF leaf[i].tag = "HafasName" THEN
        \* text_elem = element.find('Text'); text_elem.text
        IF Find(leaf[i], "Text") = PyNone THEN Raise("AttributeError")
        ELSE handle_station_loop(leaf, i + 1,
                 Put(info, "name", Find(leaf[i], "Text").text))
    ELSE \* 'Unhandled Station Data' is printed
        handle_station_loop(leaf, i + 1, info)

\* leaf: the children of a Station element, in order
handle_station(leaf) == handle_station_loop(leaf, 1, EmptyDict)

---------------------------------------------------------------------------
(* The timestamp arithmetic of the lines commented out in                  *)
(* __handle_departure_or_arrival: calendar.timegm(time.strptime(...)) of   *)
(* start_date "YYYYMMDD" and a time "HH:MM", and the day change            *)

\* days from 1970-01-01 to the civil date y-m-d
DaysFromCivil(y, m, d) ==
    LET y2 == IF m <= 2 THEN y - 1 ELSE y
        era == y2 \div 400
        yoe == y2 - era * 400
        doy == (153 * (IF m > 2 THEN m - 3 ELSE m + 9) + 2) \div 5 + d - 1
        doe == yoe * 365 + yoe \div 4 - yoe \div 100 + doy
    IN  era * 146097 + doe - 719468

naive_timestamp(text, sd) ==
    DaysFromCivil(DecimalValue(SubSeq(sd, 1, 4), 0), DecimalValue(SubSeq(sd, 5, 6), 0),
                  DecimalValue(SubSeq(sd, 7, 8), 0)) * 86400
    + DecimalValue(SubSeq(text, 1, 2), 0) * 3600
    + DecimalValue(SubSeq(text, 4, 5), 0) * 60

resolved_timestamp(text, sd, st) ==
    IF DecimalValue(SubSeq(text, 1, 2), 0) < DecimalValue(SubSeq(st, 1, 2), 0)
    THEN naive_timestamp(text, sd) + 86400
    ELSE naive_timestamp(text, sd)

\* the Time branch with the commented-out lines live
time_of_resolved(time_attr, sd, st) ==
    PyInt(resolved_timestamp(time_attr.text.str, sd.str, st.str))

---------------------------------------------------------------------------
(* HAFASProvider.__handle_departure_or_arrival *)

\* the value the Time branch stores: the element's text as it stands
time_of(time_attr, sd, st) == time_attr.text

\* the Delay branch without the conversion of minutes to seconds
delay_of_minutes(time_attr) ==
    Bind(py_int(time_attr.text), LAMBDA minutes : Ret(minutes))

\* the value the Delay branch stores
delay_of(time_attr) ==
    Bind(py_int(time_attr.text), LAMBDA minutes : Ret(60 * minutes))

RECURSIVE handle_departure_or_arrival_loop(_, _, _, _, _, _, _)
handle_departure_or_arrival_loop(attrs, i, sd, st, timestamp, delay, platform) ==
    IF i > Len(attrs) THEN Ret(<<timestamp, delay, platform>>)
    ELSE IF attrs[i].tag = "Time" THEN
        handle_departure_or_arrival_loop(attrs, i + 1, sd, st,
            time_of(attrs[i], sd, st), delay, platform)
    ELSE IF attrs[i].tag = "Delay" THEN
        Bind(delay_of(attrs[i]), LAMBDA d :
            handle_departure_or_arrival_loop(attrs, i + 1, sd, st,
                timestamp, d, platform))
    ELSE IF attrs[i].tag = "Platform" THEN
        handle_departure_or_arrival_loop(attrs, i + 1, sd, st,
            timestamp, delay, attrs[i].text)
    ELSE \* 'Unhandled time attribute' is printed
        handle_departure_or_arrival_loop(attrs, i + 1, sd, st,
            timestamp, delay, platform)

\* leaf: a Dep or Arr element; returns (timestamp, delay, platform)
handle_departure_or_arrival(leaf, sd, st) ==
    handle_departure_or_arrival_loop(leaf.children, 1, sd, st,
                                     PyInt(0), 0, PyInt(-1))

---------------------------------------------------------------------------
(* HAFASProvider.__handle_basic_stop *)

\* location = {'lat': lat, 'lon': lon, 'x': x, 'y': y, 'type': type}
location_of(x, y, type) ==
    [lat |-> TrueDiv(y, 1000000), lon |-> TrueDiv(x, 1000000),
     x |-> x, y |-> y, type |-> type]

\* the Location branch's inner loop: every child st of the Location element
\* is handed to __handle_station and replaces stop
RECURSIVE location_loop(_, _, _, _)
location_loop(sts, i, location, stop) ==
    IF i > Len(sts) THEN Ret(stop)
    ELSE Bind(handle_station(sts[i].children), LAMBDA info :
             location_loop(sts, i + 1, location, Put(info, "location", location)))

\* stop['time'], stop['delay'], stop['platform'] = t
set_time(stop, t) ==
    Put(Put(Put(stop, "time", t[1]), "delay", t[2]), "platform", t[3])

RECURSIVE handle_basic_stop_loop(_, _, _, _, _)
handle_basic_stop_loop(attrs, i, sd, st, stop) ==
    IF i > Len(attrs) THEN Ret(stop)
    ELSE IF attrs[i].tag = "Location" THEN
        Bind(py_int(Get(attrs[i], "x")), LAMBDA x :
        Bind(py_int(Get(attrs[i], "y")), LAMBDA y :
        Bind(location_loop(attrs[i].children, 1,
                           location_of(x, y, Get(attrs[i], "type")), stop),
             LAMBDA s : handle_basic_stop_loop(attrs, i + 1, sd, st, s))))
    ELSE IF attrs[i].tag = "Dep" \/ attrs[i].tag = "Arr" THEN
        Bind(handle_departure_or_arrival(attrs[i], sd, st), LAMBDA t :
            handle_basic_stop_loop(attrs, i + 1, sd, st, set_time(stop, t)))
    ELSE \* 'Unhandled BasicStop child' is printed
        handle_basic_stop_loop(attrs, i + 1, sd, st, stop)

\* leaf: a BasicStop element; returns (index, stop)
handle_basic_stop(leaf, sd, st) ==
    Bind(py_int(Get(leaf, "index")), LAMBDA index :
    Bind(handle_basic_stop_loop(leaf.children, 1, sd, st, EmptyDict), LAMBDA stop :
        Ret(<<index, stop>>)))

---------------------------------------------------------------------------
(* str.lower() *)

LowerChar(c) ==
    CASE c = "A" -> "a" [] c = "B" -> "b" [] c = "C" -> "c" [] c = "D" -> "d"
      [] c = "E" -> "e" [] c = "F" -> "f" [] c = "G" -> "g" [] c = "H" -> "h"
      [] c = "I" -> "i" [] c = "J" -> "j" [] c = "K" -> "k" [] c = "L" -> "l"
      [] c = "M" -> "m" [] c = "N" -> "n" [] c = "O" -> "o" [] c = "P" -> "p"
      [] c = "Q" -> "q" [] c = "R" -> "r" [] c = "S" -> "s" [] c = "T" -> "t"
      [] c = "U" -> "u" [] c = "V" -> "v" [] c = "W" -> "w" [] c = "X" -> "x"
      [] c = "Y" -> "y" [] c = "Z" -> "z" [] OTHER -> c

RECURSIVE lower(_)
lower(s) == IF Len(s) = 0 THEN "" ELSE LowerChar(Head(s)) \o lower(Tail(s))

\* the dict key made of an attribute's or variant's type
type_key(s) == lower(s)

\* element.get(name).lower(): AttributeError when the attribute is missing
get_lower(element, name) ==
    IF IsStr(Get(element, name)) THEN Ret(type_key(Get(element, name).str))
    ELSE Raise("AttributeError")

---------------------------------------------------------------------------
(* HAFASProvider.get_stboard: the JourneyAttributeList branch *)

\* a variant stored only while its key is free
set_variant_first_wins(d, variant_type, value) ==
    IF Has(d, variant_type) THEN d ELSE Put(d, variant_type, value)

\* conn[type][variant_type] = value
set_variant(d, variant_type, value) == Put(d, variant_type, value)

\* for text_field in attr_type: conn[type][variant_type] = text_field.text
RECURSIVE text_field_loop(_, _, _, _)
text_field_loop(text_fields, i, variant_type, d) ==
    IF i > Len(text_fields) THEN d
    ELSE text_field_loop(text_fields, i + 1, variant_type,
                         set_variant(d, variant_type, text_fields[i].text))

\* for attr_type in list(attr): AttributeCode, AttributeVariant; d is conn[type]
RECURSIVE attr_type_loop(_, _, _)
attr_type_loop(attr_types, i, d) ==
    IF i > Len(attr_types) THEN Ret(d)
    ELSE IF attr_types[i].tag = "AttributeCode" THEN
        attr_type_loop(attr_types, i + 1, Put(d, "code", attr_types[i].text))
    ELSE IF attr_types[i].tag = "AttributeVariant" THEN
        Bind(get_lower(attr_types[i], "type"), LAMBDA variant_type :
            attr_type_loop(attr_types, i + 1,
                text_field_loop(attr_types[i].children, 1, variant_type, d)))
    ELSE \* 'Unhandled attribute type' is printed
        attr_type_loop(attr_types, i + 1, d)

\* for attr in list(journey_attr): conn[type] = {} and the loop above
RECURSIVE attribute_loop(_, _, _)
attribute_loop(attrs, i, cn) ==
    IF i > Len(attrs) THEN Ret(cn)
    ELSE Bind(get_lower(attrs[i], "type"), LAMBDA type :
         Bind(attr_type_loop(attrs[i].children, 1, EmptyDict), LAMBDA d :
             attribute_loop(attrs, i + 1, Put(cn, type, d))))

\* for journey_attr in list(elem)
RECURSIVE journey_attr_loop(_, _, _)
journey_attr_loop(journey_attrs, i, cn) ==
    IF i > Len(journey_attrs) THEN Ret(cn)
    ELSE Bind(attribute_loop(journey_attrs[i].children, 1, cn), LAMBDA c2 :
             journey_attr_loop(journey_attrs, i + 1, c2))

\* elem: a JourneyAttributeList element; returns conn
journey_attribute_list(cn, elem) == journey_attr_loop(elem.children, 1, cn)

---------------------------------------------------------------------------
(* HAFASProvider.get_stboard: the MainStop and PassList branches *)

\* a stop stored only while its index is free
store_stop_first_wins(stps, index, stop) ==
    IF Has(stps, index) THEN stps ELSE Put(stps, index, stop)

\* stops[index] = stop
store_stop(stps, index, stop) == Put(stps, index, stop)

\* the comparison of the external ids alone
same_external_id(stop, origin) == stop["external_id"] = origin["external_id"]

\* stop['external_id'] == origin_station_info['external_id'] and
\* stop['pooluic'] == origin_station_info['pooluic'], the keys being present
same_station(stop, origin) ==
    /\ stop["external_id"] = origin["external_id"]
    /\ stop["pooluic"] = origin["pooluic"]

\* the body of the MainStop loop for one (index, stop); state: [conn, stops,
\* origin]; a missing key raises KeyError
main_stop_item(state, index, stop) ==
    IF ~Has(stop, "time") \/ ~Has(stop, "delay") THEN Raise("KeyError")
    ELSE IF ~Has(stop, "external_id") \/ ~Has(state.origin, "external_id")
         THEN Raise("KeyError")
    ELSE IF stop["external_id"] = state.origin["external_id"]
            /\ (~Has(stop, "pooluic") \/ ~Has(state.origin, "pooluic"))
         THEN Raise("KeyError")
    ELSE IF same_station(stop, state.origin) /\ ~Has(stop, "location")
         THEN Raise("KeyError")
    ELSE Ret([conn |-> Put(Put(state.conn, "time", stop["time"]),
                           "delay", stop["delay"]),
              origin |-> IF same_station(stop, state.origin)
                         THEN Put(state.origin, "location", stop["location"])
                         ELSE state.origin,
              stops |-> store_stop(state.stops, index, stop)])

RECURSIVE main_stop_loop(_, _, _, _, _)
main_stop_loop(bs, i, sd, st, state) ==
    IF i > Len(bs) THEN Ret(state)
    ELSE Bind(handle_basic_stop(bs[i], sd, st), LAMBDA r :
         Bind(main_stop_item(state, r[1], r[2]), LAMBDA state2 :
             main_stop_loop(bs, i + 1, sd, st, state2)))

\* elem: a MainStop element
main_stop(cn, stps, origin, elem, sd, st) ==
    main_stop_loop(elem.children, 1, sd, st,
                   [conn |-> cn, stops |-> stps, origin |-> origin])

RECURSIVE pass_list_loop(_, _, _, _, _)
pass_list_loop(bs, i, sd, st, stps) ==
    IF i > Len(bs) THEN Ret(stps)
    ELSE Bind(handle_basic_stop(bs[i], sd, st), LAMBDA r :
             pass_list_loop(bs, i + 1, sd, st, store_stop(stps, r[1], r[2])))

\* elem: a PassList element; returns stops
pass_list(stps, elem, sd, st) == pass_list_loop(elem.children, 1, sd, st, stps)

---------------------------------------------------------------------------
(* HAFASProvider.get_stboard: the InfoTextList branch *)

info_text_list(cn, elem) ==
    Put(cn, "infotext",
        [i \in 1..Len(elem.children) |->
            [title |-> Get(elem.children[i], "text"),
             text |-> Get(elem.children[i], "textL")]])

---------------------------------------------------------------------------
(* HAFASProvider.get_stboard: start time and origin station *)

\* the try/except around __handle_station
try_handle_station(info) ==
    IF IsExc(info) /\ info.exc = "TypeError"
    THEN Raise("StationNotFoundException")
    ELSE info

\* origin_station = list(root.find(...)) and the try block; station: the
\* Start/Station element, or None
origin_station(station) ==
    IF station = PyNone THEN Raise("TypeError")   \* list(None), before the try
    ELSE try_handle_station(handle_station(station.children))

\* the connection put in front
connections_prepend(cs, cn) == <<cn>> \o cs

\* connections.append(conn)
connections_append(cs, cn) == Append(cs, cn)

---------------------------------------------------------------------------
(* The documents explored: elements of a station-board response *)

NoAttr == EmptyDict
Leaf(tag, text) == El(tag, NoAttr, PyStr(text), <<>>)
Unknown == El("Foo", NoAttr, PyStr("zz"), <<>>)

ExternalId(id, pool) == El("ExternalId", [pooluic |-> pool], PyStr(id), <<>>)
HafasName(name) == El("HafasName", NoAttr, PyNone, <<Leaf("Text", name)>>)
Station(children) == El("Station", NoAttr, PyNone, children)
Location(x, y, children) ==
    El("Location", [x |-> x, y |-> y, type |-> "WGS84"], PyNone, children)
BasicStop(index, children) == El("BasicStop", [index |-> index], PyNone, children)

StationA == Station(<<ExternalId("10", "80"), HafasName("Hbf")>>)
StationA81 == Station(<<ExternalId("10", "81"), HafasName("Hbf tief")>>)
StationB == Station(<<ExternalId("11", "80"), HafasName("Markt")>>)

DepFull == El("Dep", NoAttr, PyNone,
              <<Leaf("Time", "23:50"), Leaf("Delay", "5"), Leaf("Platform", "3")>>)
ArrPlain == El("Arr", NoAttr, PyNone, <<Leaf("Time", "00:10")>>)

\* SBRes/SBReq/StartT
StartTs == {El("StartT", [date |-> "20140301", time |-> "23:30"], PyNone, <<>>)}

\* SBRes/SBReq/Start/Station
OriginStations ==
    { StationA,
      Station(<<Unknown, ExternalId("10", "80"), HafasName("Hbf")>>),
      Station(<<>>),
      Station(<<El("ExternalId", NoAttr, PyStr("10"), <<>>)>>),
      Station(<<El("ExternalId", [pooluic |-> "80"], PyNone, <<>>)>>),
      Station(<<ExternalId("1o", "80")>>),
      Station(<<El("HafasName", NoAttr, PyNone, <<>>)>>) }

MainStops ==
    { El("MainStop", NoAttr, PyNone,
         <<BasicStop("0", <<Location("8652", "50107", <<StationA>>), DepFull>>)>>),
      El("MainStop", NoAttr, PyNone,
         <<BasicStop("0", <<Location("8653", "50108", <<StationA81>>), ArrPlain>>)>>),
      El("MainStop", NoAttr, PyNone,
         <<BasicStop("1", <<Location("8660", "50110", <<StationB>>)>>)>>) }

PassLists ==
    { El("PassList", NoAttr, PyNone,
         <<BasicStop("1", <<Location("8660", "50110", <<StationB>>), ArrPlain>>),
           BasicStop("2", <<Location("8652", "50107", <<StationA>>), ArrPlain>>)>>),
      El("PassList", NoAttr, PyNone,
         <<BasicStop("0", <<Location("8660", "50110", <<StationB>>), ArrPlain>>),
           BasicStop("2", <<Location("8670", "50120", <<StationA81>>)>>),
           BasicStop("2", <<Location("8652", "50107", <<StationA>>), DepFull>>)>>),
      El("PassList", NoAttr, PyNone,
         <<BasicStop("3", <<Location("8660", "50110", <<StationB, Unknown>>),
                            ArrPlain>>)>>),
      El("PassList", NoAttr, PyNone, <<Unknown>>) }

\* the pass lists that occur beside a main stop
MergedPassLists == {p \in PassLists : Len(p.children) > 1}

Attribute(type, children) == El("Attribute", [type |-> type, priority |-> "5"], PyNone, children)
AttributeVariant(type, children) == El("AttributeVariant", [type |-> type], PyNone, children)
JourneyAttribute(children) == El("JourneyAttribute", [from |-> "0", to |-> "9"], PyNone, children)

JourneyAttributeLists ==
    { El("JourneyAttributeList", NoAttr, PyNone,
         <<JourneyAttribute(<<Attribute("NAME",
              <<Leaf("AttributeCode", "7"),
                AttributeVariant("NORMAL", <<Leaf("Text", "S 3")>>)>>)>>)>>),
      El("JourneyAttributeList", NoAttr, PyNone,
         <<JourneyAttribute(<<Attribute("DIRECTION",
              <<Unknown,
                AttributeVariant("NORMAL", <<Leaf("Text", "Bad Soden"), Unknown>>)>>)>>)>>) }

Others ==
    { El("Product", [cat |-> "S"], PyNone, <<>>),
      El("InfoTextList", NoAttr, PyNone,
         <<El("InfoText", [text |-> "Hinweis", textL |-> "Bauarbeiten"], PyNone, <<>>)>>),
      Unknown }

JourneyChildren == MainStops \cup PassLists \cup JourneyAttributeLists \cup Others

\* the children of one Journey element: none, one, or a pair of the above
JourneyBodies ==
    {<<>>} \cup {<<a>> : a \in JourneyChildren}
           \cup {<<m, p>> : m \in MainStops, p \in MergedPassLists}
           \cup {<<p, m>> : m \in MainStops, p \in MergedPassLists}

TrainIds == {"t1", "t2"}

\* every body as train t1, and the short ones as train t2 as well
Journeys ==
    {El("Journey", [trainId |-> "t1"], PyNone, body) : body \in JourneyBodies}
    \cup {El("Journey", [trainId |-> t], PyNone, body) :
             t \in TrainIds, body \in {<<>>} \cup {<<m>> : m \in MainStops}}

MaxJourneys == 2

---------------------------------------------------------------------------
(* HAFASProvider.get_stboard as a state machine over the document *)

Init ==
    /\ pc = "start"
    /\ start_date = PyNone /\ start_time = PyNone
    /\ origin_station_info = EmptyDict
    /\ connections = <<>>
    /\ conn = EmptyDict /\ stops = EmptyDict
    /\ journey = PyNone /\ k = 0
    /\ exc = "none"
    /\ header = PyNone /\ journeys = <<>>
    /\ call = PyNone /\ ret = PyNone
    /\ suggestions = <<>> /\ ac_i = 0 /\ ac_stops = <<>> /\ ac_ret = PyNone

Fail(e) == pc' = "failed" /\ exc' = e

OriginStationDone(info) ==
    IF IsExc(info)
    THEN Fail(info.exc) /\ UNCHANGED <<origin_station_info, connections>>
    ELSE /\ origin_station_info' = info.ret
         /\ connections' = <<>>
         /\ pc' = "journeys"
         /\ exc' = "none"

\* lines 147-158: start_date, start_time and the origin station
ParseHeader ==
    /\ pc = "start"
    /\ \E startT \in StartTs \cup {PyNone}, station \in OriginStations \cup {PyNone} :
         /\ header' = [StartT |-> startT, Station |-> station]
         /\ IF startT = PyNone
            THEN \* root.find("SBRes/SBReq/StartT").get on None
                 /\ Fail("AttributeError")
                 /\ UNCHANGED <<start_date, start_time, origin_station_info, connections>>
            ELSE /\ start_date' = Get(startT, "date")
                 /\ start_time' = Get(startT, "time")
                 /\ OriginStationDone(origin_station(station))
    /\ UNCHANGED <<conn, stops, journey, k, journeys, unit_vars, ac_vars>>

\* line 161-164: the next Journey of the document
NextJourney ==
    /\ pc = "journeys"
    /\ Len(journeys) < MaxJourneys
    /\ \E j \in Journeys :
         /\ journey' = j
         /\ journeys' = Append(journeys, j)
         /\ conn' = [train_id |-> Get(j, "trainId")]
    /\ stops' = EmptyDict
    /\ k' = 1
    /\ pc' = "journey"
    /\ UNCHANGED <<start_date, start_time, origin_station_info, connections, exc,
                   header, unit_vars, ac_vars>>

AtChild(tags) ==
    /\ pc = "journey"
    /\ k <= Len(journey.children)
    /\ journey.children[k].tag \in tags

KnownJourneyTags ==
    {"JourneyAttributeList", "MainStop", "Product", "PassList", "InfoTextList"}

JourneyAttributeListDone(r) ==
    IF IsExc(r) THEN Fail(r.exc) /\ UNCHANGED <<conn, k>>
    ELSE conn' = r.ret /\ k' = k + 1 /\ UNCHANGED <<pc, exc>>

JourneyAttributeListChild ==
    /\ AtChild({"JourneyAttributeList"})
    /\ JourneyAttributeListDone(journey_attribute_list(conn, journey.children[k]))
    /\ UNCHANGED <<start_date, start_time, origin_station_info, connections, stops,
                   journey, header, journeys, unit_vars, ac_vars>>

MainStopDone(r) ==
    IF IsExc(r)
    THEN Fail(r.exc) /\ UNCHANGED <<conn, stops, origin_station_info, k>>
    ELSE /\ conn' = r.ret.conn
         /\ stops' = r.ret.stops
         /\ origin_station_info' = r.ret.origin
         /\ k' = k + 1
         /\ UNCHANGED <<pc, exc>>

MainStopChild ==
    /\ AtChild({"MainStop"})
    /\ MainStopDone(main_stop(conn, stops, origin_station_info, journey.children[k],
                              start_date, start_time))
    /\ UNCHANGED <<start_date, start_time, connections, journey, header, journeys,
                   unit_vars, ac_vars>>

ProductChild ==
    /\ AtChild({"Product"})
    /\ k' = k + 1
    /\ UNCHANGED <<pc, start_date, start_time, origin_station_info, connections, conn,
                   stops, journey, exc, header, journeys, unit_vars, ac_vars>>

PassListDone(r) ==
    IF IsExc(r) THEN Fail(r.exc) /\ UNCHANGED <<stops, k>>
    ELSE stops' = r.ret /\ k' = k + 1 /\ UNCHANGED <<pc, exc>>

PassListChild ==
    /\ AtChild({"PassList"})
    /\ PassListDone(pass_list(stops, journey.children[k], start_date, start_time))
    /\ UNCHANGED <<start_date, start_time, origin_station_info, connections, conn,
                   journey, header, journeys, unit_vars, ac_vars>>

InfoTextListChild ==
    /\ AtChild({"InfoTextList"})
    /\ conn' = info_text_list(conn, journey.children[k])
    /\ k' = k + 1
    /\ UNCHANGED <<pc, start_date, start_time, origin_station_info, connections,
                   stops, journey, exc, header, journeys, unit_vars, ac_vars>>

\* 'Unhandled Journey child' is printed
UnhandledJourneyChild ==
    /\ pc = "journey"
    /\ k <= Len(journey.children)
    /\ journey.children[k].tag \notin KnownJourneyTags
    /\ k' = k + 1
    /\ UNCHANGED <<pc, start_date, start_time, origin_station_info, connections, conn,
                   stops, journey, exc, header, journeys, unit_vars, ac_vars>>

\* lines 232-233: conn['stops'] = stops; connections.append(conn)
EndJourney ==
    /\ pc = "journey"
    /\ k > Len(journey.children)
    /\ conn' = Put(conn, "stops", stops)
    /\ connections' = connections_append(connections, conn')
    /\ pc' = "journeys"
    /\ UNCHANGED <<start_date, start_time, origin_station_info, stops, journey, k, exc,
                   header, journeys, unit_vars, ac_vars>>

\* line 235: the document has no further Journey
Return ==
    /\ pc = "journeys"
    /\ pc' = "done"
    /\ UNCHANGED <<board_vars, unit_vars, ac_vars>>

Next ==
    \/ ParseHeader
    \/ NextJourney
    \/ JourneyAttributeListChild
    \/ MainStopChild
    \/ ProductChild
    \/ PassListChild
    \/ InfoTextListChild
    \/ UnhandledJourneyChild
    \/ EndJourney
    \/ Return

Spec == Init /\ [][Next]_vars

---------------------------------------------------------------------------
(* HAFASProvider.get_stboard as a function of the whole document: the     *)
(* same branches, folded over the Journey elements and their children     *)

\* one child elem of a Journey; state: [conn, stops, origin]
journey_child(state, elem, sd, st) ==
    IF elem.tag = "JourneyAttributeList" THEN
        Bind(journey_attribute_list(state.conn, elem), LAMBDA cn :
            Ret([state EXCEPT !.conn = cn]))
    ELSE IF elem.tag = "MainStop" THEN
        main_stop(state.conn, state.stops, state.origin, elem, sd, st)
    ELSE IF elem.tag = "Product" THEN Ret(state)
    ELSE IF elem.tag = "PassList" THEN
        Bind(pass_list(state.stops, elem, sd, st), LAMBDA stps :
            Ret([state EXCEPT !.stops = stps]))
    ELSE IF elem.tag = "InfoTextList" THEN
        Ret([state EXCEPT !.conn = info_text_list(state.conn, elem)])
    ELSE Ret(state)

RECURSIVE journey_loop(_, _, _, _, _)
journey_loop(elems, i, sd, st, state) ==
    IF i > Len(elems) THEN Ret(state)
    ELSE Bind(journey_child(state, elems[i], sd, st), LAMBDA state2 :
             journey_loop(elems, i + 1, sd, st, state2))

\* result: [origin, connections]
RECURSIVE journeys_loop(_, _, _, _, _)
journeys_loop(js, i, sd, st, result) ==
    IF i > Len(js) THEN Ret(result)
    ELSE Bind(journey_loop(js[i].children, 1, sd, st,
                           [conn |-> [train_id |-> Get(js[i], "trainId")],
                            stops |-> EmptyDict,
                            origin |-> result.origin]),
              LAMBDA state :
                 journeys_loop(js, i + 1, sd, st,
                     [origin |-> state.origin,
                      connections |->
                          connections_append(result.connections,
                              Put(state.conn, "stops", state.stops))]))

\* hdr: [StartT, Station]; js: the Journey elements; returns
\* (origin_station_info, connections)
get_stboard(hdr, js) ==
    IF hdr.StartT = PyNone THEN Raise("AttributeError")
    ELSE Bind(origin_station(hdr.Station), LAMBDA info :
             journeys_loop(js, 1, Get(hdr.StartT, "date"), Get(hdr.StartT, "time"),
                           [origin |-> info, connections |-> <<>>]))

---------------------------------------------------------------------------
(* Reading the document for the properties below *)

\* the parse has consumed whole journeys only: journeys[i] made connections[i]
BetweenJourneys == pc \in {"journeys", "done"}

RECURSIVE Flatten(_)
Flatten(ss) == IF ss = <<>> THEN <<>> ELSE Head(ss) \o Flatten(Tail(ss))

\* the children of j's children tagged with one of tags, in document order
Grandchildren(j, tags) ==
    Flatten([i \in 1..Len(j.children) |->
                IF j.children[i].tag \in tags THEN j.children[i].children ELSE <<>>])

MainStopEntries(j) == Grandchildren(j, {"MainStop"})
PassListEntries(j) == Grandchildren(j, {"PassList"})
StopEntries(j) == Grandchildren(j, {"MainStop", "PassList"})

\* the index attribute of a stop entry of a journey that was parsed
IndexOf(b) == py_int(Get(b, "index")).ret

\* the stop record of a stop entry of a journey that was parsed
RecordOf(b) == handle_basic_stop(b, start_date, start_time).ret[2]

---------------------------------------------------------------------------
(* C2 (as claimed): a board response whose origin station element is      *)
(* absent or has no children fails with StationNotFoundException and      *)
(* returns no result.                                                      *)
C2_EmptyOriginIsStationNotFound ==
    (/\ pc # "start"
     /\ header.StartT # PyNone
     /\ (header.Station = PyNone \/ header.Station.children = <<>>))
    => (pc = "failed" /\ exc = "StationNotFoundException")

---------------------------------------------------------------------------
(* C3 (as claimed): for every connection produced, the number of entries  *)
(* of the stop mapping equals the number of main-stop entries plus the     *)
(* number of pass-list entries of its journey.                             *)
C3_SizeIsEntryCount ==
    BetweenJourneys =>
        \A i \in 1..Len(connections) :
            Cardinality(DOMAIN connections[i]["stops"])
                = Len(MainStopEntries(journeys[i])) + Len(PassListEntries(journeys[i]))

(* C3 (amended): for every connection produced, the stop mapping is keyed *)
(* by the index attributes of the journey's main-stop and pass-list       *)
(* entries, one entry per distinct index; an index that occurs more than   *)
(* once keeps the record of its last entry in document order, so the size  *)
(* equals the number of entries exactly when their indices are pairwise    *)
(* distinct.                                                               *)
C3_KeyedByIndexLastWins ==
    BetweenJourneys =>
        \A i \in 1..Len(connections) :
            LET entries == StopEntries(journeys[i])
                m == connections[i]["stops"]
                last(idx) == CHOOSE n \in 1..Len(entries) :
                                /\ IndexOf(entries[n]) = idx
                                /\ \A n2 \in (n + 1)..Len(entries) :
                                       IndexOf(entries[n2]) # idx
            IN  /\ DOMAIN m = {IndexOf(entries[n]) : n \in 1..Len(entries)}
                /\ \A idx \in DOMAIN m : m[idx] = RecordOf(entries[last(idx)])
                /\ (Cardinality(DOMAIN m) = Len(entries))
                       <=> (\A n1, n2 \in 1..Len(entries) :
                               n1 # n2 => IndexOf(entries[n1]) # IndexOf(entries[n2]))

\* a connection that merged a main stop and a pass list without collision,
\* and a connection in which two entries shared an index
C3_Witness ==
    /\ pc = "done"
    /\ \E i \in 1..Len(connections) :
         /\ Len(MainStopEntries(journeys[i])) = 1
         /\ Len(PassListEntries(journeys[i])) = 2
         /\ Cardinality(DOMAIN connections[i]["stops"]) = 3
    /\ \E i \in 1..Len(connections) :
         Cardinality(DOMAIN connections[i]["stops"]) < Len(StopEntries(journeys[i]))

---------------------------------------------------------------------------
(* C8: for every board document with a valid origin station, connections  *)
(* holds one connection per Journey element in document order (the i-th   *)
(* connection carries the i-th Journey's trainId and stops), and a         *)
(* document without journeys yields the empty sequence together with the   *)
(* parsed origin station.                                                  *)
C8_OneConnectionPerJourneyInOrder ==
    /\ BetweenJourneys =>
         /\ Len(connections) = Len(journeys)
         /\ \A i \in 1..Len(journeys) :
              /\ connections[i]["train_id"] = Get(journeys[i], "trainId")
              /\ DOMAIN connections[i]["stops"]
                   = {IndexOf(b) : b \in {StopEntries(journeys[i])[n] :
                                            n \in 1..Len(StopEntries(journeys[i]))}}
    /\ pc = "journey" => Len(connections) = Len(journeys) - 1
    /\ (pc = "done" /\ journeys = <<>>) =>
         /\ connections = <<>>
         /\ Ret(origin_station_info) = handle_station(header.Station.children)

C8_Witness ==
    /\ pc = "done"
    /\ Len(connections) = 2
    /\ connections[1]["train_id"] = PyStr("t2")
    /\ connections[2]["train_id"] = PyStr("t1")
    /\ DOMAIN connections[1]["stops"] # DOMAIN connections[2]["stops"]

---------------------------------------------------------------------------
(* C10: after a board parse the origin station record has a location if   *)
(* and only if some journey's main stop has the origin station's           *)
(* (external_id, pooluic); the location is then that of such a main stop;  *)
(* main stops of another identity and pass-list stops leave the record     *)
(* alone, and external_id, pooluic and name stay as parsed from the        *)
(* origin station element.                                                 *)
MainStopRecords ==
    UNION {{RecordOf(MainStopEntries(journeys[i])[n]) :
                n \in 1..Len(MainStopEntries(journeys[i]))} : i \in 1..Len(journeys)}

MatchingMainStops ==
    {s \in MainStopRecords :
        /\ Has(origin_station_info, "external_id")
        /\ s["external_id"] = origin_station_info["external_id"]
        /\ s["pooluic"] = origin_station_info["pooluic"]}

C10_LocationBackfilledFromMatchingMainStop ==
    BetweenJourneys =>
        /\ Has(origin_station_info, "location") <=> MatchingMainStops # {}
        /\ Has(origin_station_info, "location") =>
               \E s \in MatchingMainStops :
                   origin_station_info["location"] = s["location"]
        /\ Ret([key \in DOMAIN origin_station_info \ {"location"} |->
                    origin_station_info[key]])
               = handle_station(header.Station.children)

\* back-filled from a matching main stop, beside a main stop of another pool
\* id and a pass-list stop of the origin station's identity
C10_Witness ==
    /\ pc = "done"
    /\ Has(origin_station_info, "location")
    /\ Cardinality(MainStopRecords) = 2
    /\ Cardinality(MatchingMainStops) = 1
    /\ \E i \in 1..Len(journeys) : PassListEntries(journeys[i]) # <<>>

---------------------------------------------------------------------------
(* C4 (as claimed): a child element with an unrecognized tag under a      *)
(* Station, a Location, a Dep/Arr, a BasicStop, an Attribute, an           *)
(* AttributeVariant or a Journey never makes the parse of an otherwise     *)
(* valid document fail and never changes its result: the parse returns     *)
(* what it returns for the document without the unrecognized elements.     *)

\* the tags the parser recognizes under an element of the given tag; other
\* elements are not among the levels the claim names
Walked == {"Station", "Location", "Dep", "Arr", "BasicStop", "Attribute",
           "AttributeVariant", "Journey"}

Recognized(tag) ==
    CASE tag = "Station" -> {"ExternalId", "HafasName"}
      [] tag = "Location" -> {"Station"}
      [] tag \in {"Dep", "Arr"} -> {"Time", "Delay", "Platform"}
      [] tag = "BasicStop" -> {"Location", "Dep", "Arr"}
      [] tag = "Attribute" -> {"AttributeCode", "AttributeVariant"}
      [] tag = "AttributeVariant" -> {"Text"}
      [] tag = "Journey" -> KnownJourneyTags
      [] OTHER -> {}

\* e without the unrecognized elements, at every level
RECURSIVE Strip(_)
RECURSIVE StripAll(_, _)
StripAll(parent, es) ==
    IF es = <<>> THEN <<>>
    ELSE IF parent \in Walked /\ Head(es).tag \notin Recognized(parent)
         THEN StripAll(parent, Tail(es))
         ELSE <<Strip(Head(es))>> \o StripAll(parent, Tail(es))
Strip(e) == [e EXCEPT !.children = StripAll(e.tag, e.children)]

StrippedHeader ==
    [header EXCEPT !.Station = IF header.Station = PyNone THEN PyNone
                               ELSE Strip(header.Station)]
StrippedJourneys == [i \in 1..Len(journeys) |-> Strip(journeys[i])]

C4_UnknownTagsChangeNothing ==
    (/\ pc \in {"done", "failed"}
     /\ header.StartT # PyNone
     /\ header.Station \in {StationA, Strip(header.Station)}
     /\ StrippedHeader.Station = StationA
     /\ ~IsExc(get_stboard(StrippedHeader, StrippedJourneys)))
    => /\ pc = "done"
       /\ Ret([origin |-> origin_station_info, connections |-> connections])
            = get_stboard(StrippedHeader, StrippedJourneys)

---------------------------------------------------------------------------
(* The helpers called on their own: every Dep/Arr, BasicStop, MainStop    *)
(* and JourneyAttributeList element built from the parts below            *)

SeqsUpTo(S, n) == UNION {[1..m -> S] : m \in 0..n}

MaxTimeAttrs == 3
MaxStopChildren == 3
MaxAttrTypes == 2

TimeAttrs ==
    { Leaf("Time", "23:50"), Leaf("Time", "00:10"), Leaf("Delay", "5"),
      Leaf("Delay", "-2"), Leaf("Delay", "x"), Leaf("Platform", "3"), Unknown }

DepOrArrs == {El(tag, NoAttr, PyNone, cs) :
                 tag \in {"Dep", "Arr"}, cs \in SeqsUpTo(TimeAttrs, MaxTimeAttrs)}

StopChildren ==
    { Location("8652", "50107", <<StationA>>),
      Location("8660", "50110", <<StationB, Unknown>>),
      Location("8670", "50120", <<>>),
      DepFull, ArrPlain,
      El("Dep", NoAttr, PyNone, <<Leaf("Delay", "-2")>>),
      Unknown }

BasicStops == {BasicStop(index, cs) :
                  index \in {"0", "7"}, cs \in SeqsUpTo(StopChildren, MaxStopChildren)}
                  \cup {El("BasicStop", NoAttr, PyNone, <<DepFull>>)}

UnitMainStops == {El("MainStop", NoAttr, PyNone, <<b>>) : b \in BasicStops}

AttrTypes ==
    { Leaf("AttributeCode", "7"),
      AttributeVariant("NORMAL", <<Leaf("Text", "S 3")>>),
      AttributeVariant("normal", <<Leaf("Text", "S3")>>),
      AttributeVariant("Long", <<Leaf("Text", "S-Bahn 3"), Leaf("Text", "S-Bahn")>>),
      AttributeVariant("normal", <<>>) }

Attributes == {Attribute(type, cs) :
                  type \in {"NAME", "name", "Direction"},
                  cs \in SeqsUpTo(AttrTypes, MaxAttrTypes)}

\* the attributes that another one follows in a list
EarlierAttributes == {a \in Attributes : Len(a.children) <= 1}

UnitJourneyAttributeLists ==
    {El("JourneyAttributeList", NoAttr, PyNone, <<JourneyAttribute(<<a>>)>>) :
        a \in Attributes}
    \cup {El("JourneyAttributeList", NoAttr, PyNone, <<JourneyAttribute(<<a, b>>)>>) :
        a \in EarlierAttributes, b \in Attributes}
    \cup {El("JourneyAttributeList", NoAttr, PyNone,
             <<JourneyAttribute(<<a>>), JourneyAttribute(<<b>>)>>) :
        a \in EarlierAttributes, b \in Attributes}

\* (start_date, start_time) of the response
UnitStarts == {<<PyStr("20140301"), PyStr("23:30")>>, <<PyStr("20140301"), PyStr("08:00")>>}

UnitConn == [train_id |-> PyStr("t1")]
UnitOrigin == handle_station(StationA.children).ret

UnitCalls ==
    {[fn |-> "handle_departure_or_arrival", leaf |-> e, sd |-> t[1], st |-> t[2]] :
        e \in DepOrArrs, t \in UnitStarts}
    \cup {[fn |-> "handle_basic_stop", leaf |-> e, sd |-> t[1], st |-> t[2]] :
        e \in BasicStops, t \in UnitStarts}
    \cup {[fn |-> "main_stop", elem |-> e, sd |-> t[1], st |-> t[2]] :
        e \in UnitMainStops, t \in UnitStarts}
    \cup {[fn |-> "journey_attribute_list", elem |-> e] : e \in UnitJourneyAttributeLists}

UnitInit ==
    /\ pc = "call"
    /\ call \in UnitCalls
    /\ ret = PyNone
    /\ start_date = PyNone /\ start_time = PyNone
    /\ origin_station_info = EmptyDict
    /\ connections = <<>>
    /\ conn = EmptyDict /\ stops = EmptyDict
    /\ journey = PyNone /\ k = 0
    /\ exc = "none"
    /\ header = PyNone /\ journeys = <<>>
    /\ suggestions = <<>> /\ ac_i = 0 /\ ac_stops = <<>> /\ ac_ret = PyNone

Returned(r) ==
    /\ ret' = r
    /\ pc' = "returned"
    /\ UNCHANGED <<call, board_vars, ac_vars>>

CallHandleDepartureOrArrival ==
    /\ pc = "call" /\ call.fn = "handle_departure_or_arrival"
    /\ Returned(handle_departure_or_arrival(call.leaf, call.sd, call.st))

CallHandleBasicStop ==
    /\ pc = "call" /\ call.fn = "handle_basic_stop"
    /\ Returned(handle_basic_stop(call.leaf, call.sd, call.st))

CallMainStop ==
    /\ pc = "call" /\ call.fn = "main_stop"
    /\ Returned(main_stop(UnitConn, EmptyDict, UnitOrigin, call.elem, call.sd, call.st))

CallJourneyAttributeList ==
    /\ pc = "call" /\ call.fn = "journey_attribute_list"
    /\ Returned(journey_attribute_list(UnitConn, call.elem))

UnitNext ==
    \/ CallHandleDepartureOrArrival
    \/ CallHandleBasicStop
    \/ CallMainStop
    \/ CallJourneyAttributeList

UnitSpec == UnitInit /\ [][UnitNext]_vars

---------------------------------------------------------------------------
(* Reading a helper's argument for the properties below *)

HasReturned == pc = "returned" /\ ~IsExc(ret)

\* the position of the last element of es satisfying Test, or 0
LastWhere(es, Test(_)) ==
    IF \E n \in 1..Len(es) : Test(es[n])
    THEN CHOOSE n \in 1..Len(es) :
            Test(es[n]) /\ \A n2 \in (n + 1)..Len(es) : ~Test(es[n2])
    ELSE 0

LastTagged(es, tags) == LastWhere(es, LAMBDA e : e.tag \in tags)

\* the child of a BasicStop that decides its time, delay and platform: the
\* last Dep/Arr, unless a Location with a child follows it and replaces stop
IsDepOrArr(e) == e.tag \in {"Dep", "Arr"}
SetsStop(e) == IsDepOrArr(e) \/ (e.tag = "Location" /\ e.children # <<>>)
TimedBy(b) ==
    IF LastWhere(b.children, SetsStop) # 0
       /\ IsDepOrArr(b.children[LastWhere(b.children, SetsStop)])
    THEN b.children[LastWhere(b.children, SetsStop)]
    ELSE PyNone

---------------------------------------------------------------------------
TimeIsRawText(leaf, t) ==
    IF LastTagged(leaf.children, {"Time"}) = 0 THEN t = PyInt(0)
    ELSE t = leaf.children[LastTagged(leaf.children, {"Time"})].text /\ IsStr(t)

---------------------------------------------------------------------------
(* C5: the delay of every stop record and connection record is 60 * k for *)
(* the integer k of the Delay element of the Dep/Arr element that the      *)
(* record was parsed from, hence a multiple of 60, and 0 when that element *)
(* has no Delay child; it is kept beside the time, which is the same with  *)
(* and without the Delay element.                                          *)
DelayMinutes(leaf) ==
    IF LastTagged(leaf.children, {"Delay"}) = 0 THEN 0
    ELSE py_int(leaf.children[LastTagged(leaf.children, {"Delay"})].text).ret

WithoutDelay(leaf) ==
    [leaf EXCEPT !.children = SelectSeq(leaf.children, LAMBDA e : e.tag # "Delay")]

DelayIsSixtyTimesMinutes(leaf, delay, time) ==
    /\ delay = 60 * DelayMinutes(leaf)
    /\ delay % 60 = 0
    /\ LastTagged(leaf.children, {"Delay"}) = 0 => delay = 0
    /\ time = handle_departure_or_arrival(WithoutDelay(leaf), call.sd, call.st).ret[1]

C5_DelayIsSixtyTimesMinutes ==
    HasReturned =>
        /\ call.fn = "handle_departure_or_arrival" =>
               DelayIsSixtyTimesMinutes(call.leaf, ret.ret[2], ret.ret[1])
        /\ call.fn = "handle_basic_stop" =>
               /\ Has(ret.ret[2], "delay") <=> TimedBy(call.leaf) # PyNone
               /\ Has(ret.ret[2], "delay") =>
                      DelayIsSixtyTimesMinutes(TimedBy(call.leaf),
                          ret.ret[2]["delay"], ret.ret[2]["time"])
        /\ call.fn = "main_stop" =>
               DelayIsSixtyTimesMinutes(TimedBy(call.elem.children[1]),
                   ret.ret.conn["delay"], ret.ret.conn["time"])

\* a main stop with a Delay of 5 minutes
C5_Witness ==
    /\ HasReturned
    /\ call.fn = "main_stop"
    /\ ret.ret.conn["delay"] = 300
    /\ ret.ret.conn["time"] = PyStr("23:50")
    /\ \E idx \in DOMAIN ret.ret.stops : ret.ret.stops[idx]["delay"] = ret.ret.conn["delay"]

---------------------------------------------------------------------------
(* C9: an attribute's record is keyed by the lower-cased variant types,   *)
(* and a collision keeps the last value: of several variants of one        *)
(* lower-cased type the text of the last one is kept under a single key,   *)
(* and of several attributes of one lower-cased type the record of the     *)
(* last one replaces the earlier ones.                                     *)

\* the Attribute elements of a JourneyAttributeList, in document order
AttributesOf(elem) ==
    Flatten([i \in 1..Len(elem.children) |-> elem.children[i].children])

\* the variants of attribute a that carry a text and whose type lower-cases to vk
VariantKeys(a) ==
    {lower(a.children[n].attrib["type"]) :
        n \in {m \in 1..Len(a.children) :
                 a.children[m].tag = "AttributeVariant" /\ a.children[m].children # <<>>}}

LastVariant(a, vk) ==
    a.children[LastWhere(a.children, LAMBDA e :
        /\ e.tag = "AttributeVariant"
        /\ e.children # <<>>
        /\ lower(e.attrib["type"]) = vk)]

AttributeRecordIs(a, d) ==
    /\ DOMAIN d = VariantKeys(a)
                    \cup (IF LastTagged(a.children, {"AttributeCode"}) # 0
                          THEN {"code"} ELSE {})
    /\ \A vk \in VariantKeys(a) :
           d[vk] = LastVariant(a, vk).children[Len(LastVariant(a, vk).children)].text
    /\ LastTagged(a.children, {"AttributeCode"}) # 0 =>
           d["code"] = a.children[LastTagged(a.children, {"AttributeCode"})].text

C9_LowerCasedKeysLastWins ==
    (HasReturned /\ call.fn = "journey_attribute_list") =>
        LET attrs == AttributesOf(call.elem)
            keys == {lower(attrs[n].attrib["type"]) : n \in 1..Len(attrs)}
        IN  /\ DOMAIN ret.ret = {"train_id"} \cup keys
            /\ ret.ret["train_id"] = UnitConn["train_id"]
            /\ \A key \in keys :
                   AttributeRecordIs(
                       attrs[LastWhere(attrs, LAMBDA a : lower(a.attrib["type"]) = key)],
                       ret.ret[key])

\* two variants typed "NORMAL" and "normal" in one attribute: one key, the
\* second text; and an earlier attribute "NAME" replaced by a later "name"
C9_Witness ==
    /\ HasReturned
    /\ call.fn = "journey_attribute_list"
    /\ Len(AttributesOf(call.elem)) = 2
    /\ AttributesOf(call.elem)[1].attrib["type"] = "NAME"
    /\ AttributesOf(call.elem)[1].children = <<Leaf("AttributeCode", "7")>>
    /\ AttributesOf(call.elem)[2].attrib["type"] = "name"
    /\ AttributesOf(call.elem)[2].children
         = <<AttributeVariant("NORMAL", <<Leaf("Text", "S 3")>>),
             AttributeVariant("normal", <<Leaf("Text", "S3")>>)>>
    /\ ret.ret = [train_id |-> PyStr("t1"), name |-> [normal |-> PyStr("S3")]]

---------------------------------------------------------------------------
(* HAFASProvider.get_autocomplete_locations, from root['suggestions'] on  *)

\* stop[key]
Lookup(d, key) == IF Has(d, key) THEN Ret(d[key]) ELSE Raise("KeyError")

\* int(stop[key]) / 1000 without the isdigit() test
coordinate_unchecked(d, key) ==
    Bind(Lookup(d, key), LAMBDA v :
        Bind(py_int(PyStr(v)), LAMBDA n : Ret(TrueDiv(n, 1000))))

\* int(stop[key]) / 1000 if stop[key].isdigit() else None
coordinate(d, key) ==
    Bind(Lookup(d, key), LAMBDA v :
        IF isdigit(v) THEN Ret(TrueDiv(DecimalValue(v, 0), 1000)) ELSE Ret(PyNone))

\* the dict display of lines 307-313, its values evaluated in order
make_stop(d) ==
    Bind(Lookup(d, "value"), LAMBDA name :
    Bind(Lookup(d, "extId"), LAMBDA external_id :
    Bind(coordinate(d, "ycoord"), LAMBDA lat :
    Bind(coordinate(d, "xcoord"), LAMBDA lon :
    Bind(Bind(Lookup(d, "weight"), LAMBDA w : py_int(PyStr(w))), LAMBDA weight :
    Bind(Lookup(d, "prodClass"), LAMBDA products :
    Bind(Lookup(d, "type"), LAMBDA type :
        Ret([name |-> name, external_id |-> external_id, lat |-> lat, lon |-> lon,
             weight |-> weight, products |-> products, type |-> type]))))))))

\* sorted(stops, key = lambda stop: stop['weight'], reverse=True): a stable
\* sort, so x goes right behind the last element that does not sort after it
goes_before_ascending(a, b) == a["weight"] <= b["weight"]

goes_before(a, b) == a["weight"] >= b["weight"]

RECURSIVE insert_sorted(_, _)
insert_sorted(sorted, x) ==
    IF sorted # <<>> /\ goes_before(sorted[Len(sorted)], x) THEN Append(sorted, x)
    ELSE IF sorted = <<>> THEN <<x>>
    ELSE Append(insert_sorted(SubSeq(sorted, 1, Len(sorted) - 1), x), sorted[Len(sorted)])

RECURSIVE sorted_loop(_, _, _)
sorted_loop(stps, i, sorted) ==
    IF i > Len(stps) THEN sorted
    ELSE sorted_loop(stps, i + 1, insert_sorted(sorted, stps[i]))

sorted_by_weight(stps) == sorted_loop(stps, 1, <<>>)

MaxSuggestions == 3

Suggestion(name, x, y, weight) ==
    [value |-> name, extId |-> "3000010", ycoord |-> y, xcoord |-> x,
     weight |-> weight, prodClass |-> "31", type |-> "1"]

Without(d, key) == [y \in DOMAIN d \ {key} |-> d[y]]

Suggestions ==
    { Suggestion("Hbf", "8652", "50107", "3"),
      Suggestion("Markt", "8660", "50110", "9"),
      Suggestion("Dom", "8670", "50120", "1"),
      Suggestion("Adresse", "", "-50107", "9"),
      Without(Suggestion("Ohne x", "8652", "50107", "3"), "xcoord"),
      Without(Suggestion("Ohne Typ", "8652", "50107", "1"), "type"),
      Suggestion("Gewicht", "8652", "50107", "x") }

AcInit ==
    /\ pc = "ac_loop"
    /\ suggestions \in SeqsUpTo(Suggestions, MaxSuggestions)
    /\ ac_i = 1
    /\ ac_stops = <<>>
    /\ ac_ret = PyNone
    /\ start_date = PyNone /\ start_time = PyNone
    /\ origin_station_info = EmptyDict
    /\ connections = <<>>
    /\ conn = EmptyDict /\ stops = EmptyDict
    /\ journey = PyNone /\ k = 0
    /\ exc = "none"
    /\ header = PyNone /\ journeys = <<>>
    /\ call = PyNone /\ ret = PyNone

AtSuggestion == pc = "ac_loop" /\ ac_i <= Len(suggestions)

\* lines 307-313: the entry is appended
AppendStop ==
    /\ AtSuggestion
    /\ ~IsExc(make_stop(suggestions[ac_i]))
    /\ ac_stops' = Append(ac_stops, make_stop(suggestions[ac_i]).ret)
    /\ ac_i' = ac_i + 1
    /\ UNCHANGED <<pc, suggestions, ac_ret, board_vars, unit_vars>>

\* lines 314-315: except KeyError, the entry is dropped
CaughtKeyError ==
    /\ AtSuggestion
    /\ make_stop(suggestions[ac_i]) = Raise("KeyError")
    /\ ac_i' = ac_i + 1
    /\ UNCHANGED <<pc, suggestions, ac_stops, ac_ret, board_vars, unit_vars>>

\* any other exception leaves get_autocomplete_locations
AutocompleteRaises ==
    /\ AtSuggestion
    /\ IsExc(make_stop(suggestions[ac_i]))
    /\ make_stop(suggestions[ac_i]) # Raise("KeyError")
    /\ pc' = "ac_failed"
    /\ exc' = make_stop(suggestions[ac_i]).exc
    /\ UNCHANGED <<start_date, start_time, origin_station_info, connections, conn,
                   stops, journey, k, header, journeys, unit_vars, ac_vars>>

\* line 317
AutocompleteReturns ==
    /\ pc = "ac_loop"
    /\ ac_i > Len(suggestions)
    /\ ac_ret' = sorted_by_weight(ac_stops)
    /\ pc' = "ac_done"
    /\ UNCHANGED <<suggestions, ac_i, ac_stops, board_vars, unit_vars>>

AcNext ==
    \/ AppendStop
    \/ CaughtKeyError
    \/ AutocompleteRaises
    \/ AutocompleteReturns

AcSpec == AcInit /\ [][AcNext]_vars

---------------------------------------------------------------------------
(* Reading the payload for the properties below *)

RequiredKeys == {"value", "extId", "weight", "prodClass", "type"}
CoordinateKeys == {"ycoord", "xcoord"}
AllKeys == RequiredKeys \cup CoordinateKeys

\* the keys line 311 has read when it calls int() on the weight
ReadBeforeWeight == {"value", "extId", "ycoord", "xcoord", "weight"}

\* the weights of the payloads, as numbers
WeightOf(e) == CASE e["weight"] = "1" -> 1
                 [] e["weight"] = "3" -> 3
                 [] e["weight"] = "9" -> 9

\* the entries read so far
Read == SubSeq(suggestions, 1, ac_i - 1)

\* the elements of a sequence with their multiplicities
BagOf(seq) == [x \in {seq[n] : n \in 1..Len(seq)} |->
                  Cardinality({n \in 1..Len(seq) : seq[n] = x})]

---------------------------------------------------------------------------
(* C6 (as claimed): the autocomplete parser returns exactly the entries   *)
(* that carry all required keys; xcoord and ycoord are optional, so an     *)
(* entry without usable coordinates is still returned, with lat/lon        *)
(* absent.                                                                 *)
C6_CoordinatesOptional ==
    pc = "ac_done" =>
        Len(ac_ret) = Len(SelectSeq(suggestions, LAMBDA e : RequiredKeys \subseteq DOMAIN e))

(* C6 (amended): the autocomplete parser returns exactly the entries that *)
(* carry all seven keys value, extId, ycoord, xcoord, weight, prodClass    *)
(* and type, each once: an entry missing any of them, xcoord and ycoord    *)
(* included, is dropped without failing the parse and without touching     *)
(* another entry; a coordinate that is present but not all digits gives    *)
(* lat/lon None and the entry is still returned.                           *)
RecordIs(r, e) ==
    /\ r["name"] = e["value"]
    /\ r["external_id"] = e["extId"]
    /\ r["products"] = e["prodClass"]
    /\ r["type"] = e["type"]
    /\ r["weight"] = WeightOf(e)
    /\ r["lat"] = PyNone <=> ~isdigit(e["ycoord"])
    /\ r["lon"] = PyNone <=> ~isdigit(e["xcoord"])

C6_AllSevenKeysRequired ==
    LET kept == SelectSeq(Read, LAMBDA e : AllKeys \subseteq DOMAIN e)
    IN  /\ pc \in {"ac_loop", "ac_done"} =>
              /\ Len(ac_stops) = Len(kept)
              /\ \A n \in 1..Len(kept) : RecordIs(ac_stops[n], kept[n])
        /\ pc = "ac_done" => BagOf(ac_ret) = BagOf(ac_stops)
        /\ pc = "ac_failed" =>
              /\ exc = "ValueError"
              /\ ReadBeforeWeight \subseteq DOMAIN suggestions[ac_i]
              /\ ~isdigit(suggestions[ac_i]["weight"])

\* returned: an entry whose coordinates are not digits, with lat and lon
\* None, behind a dropped entry without xcoord
C6_Witness ==
    /\ pc = "ac_done"
    /\ Len(suggestions) = 3
    /\ "xcoord" \notin DOMAIN suggestions[1]
    /\ "type" \notin DOMAIN suggestions[3]
    /\ Len(ac_ret) = 1
    /\ ac_ret[1]["lat"] = PyNone /\ ac_ret[1]["lon"] = PyNone
    /\ ac_ret[1]["name"] = "Adresse"

---------------------------------------------------------------------------
(* C7: the returned sequence is a permutation of the retained entries in  *)
(* the order of non-increasing weight: weight(a) >= weight(b) for adjacent *)
(* results a, b; the weights [3, 9, 1] come back as [9, 3, 1].             *)
C7_SortedByDescendingWeight ==
    pc = "ac_done" =>
        /\ BagOf(ac_ret) = BagOf(ac_stops)
        /\ Len(ac_ret) = Len(ac_stops)
        /\ \A n \in 1..(Len(ac_ret) - 1) : ac_ret[n]["weight"] >= ac_ret[n + 1]["weight"]

C7_Witness ==
    /\ pc = "ac_done"
    /\ [n \in 1..Len(ac_stops) |-> ac_stops[n]["weight"]] = <<3, 9, 1>>
    /\ [n \in 1..Len(ac_ret) |-> ac_ret[n]["weight"]] = <<9, 3, 1>>

===========================================================================
